---- MODULE Spec2Model ----
(***************************************************************************)
(* Model of the cluster coordination header (cluster.h, kept as            *)
(* src/unnamed/part_000) and of the bit-field helpers of src/src/pawns.h.  *)
(*                                                                         *)
(* Specifications:                                                         *)
(*   SpecBuf     TTSendBuffer<N>::replace (the send buffer heap)           *)
(*   SpecSingle  the single-process stubs (USE_MPI not defined)            *)
(*   SpecGetline Cluster::getline over every bounded input stream          *)
(*   SpecPick    pick_moves: the stub and the selection over all ranks     *)
(*   SpecSignal  the stop signal: the stubs and the channel between ranks  *)
(*   SpecBits    Pawns::get_bits and Pawns::set_bits on a WordBits-bit word *)
(***************************************************************************)
EXTENDS Integers, Sequences, FiniteSets, TLC

VARIABLES
    buffer,     \* TTSendBuffer<N>: the std::array<KeyedTTEntry, N>
    offered,    \* history: the values passed to replace since the array was last value-initialised
    value,      \* argument of the last replace call
    ret,        \* return value of the last replace call
    op,         \* name of the last operation
    input,      \* the std::istream handed to getline: its characters, read position and state bits
    str,        \* the std::string handed to getline
    nread,      \* history: number of getline calls that returned true
    tte,        \* the TTEntry that save is given
    args,       \* arguments of the last save call
    mi,         \* the MoveInfo handed to pick_moves
    topo,       \* results of the last size(), rank() and is_root() calls
    mode,       \* the build: "single" (USE_MPI not defined) or "mpi"
    cand,       \* the MoveInfo each rank publishes in the episode, by rank
    sig,        \* the signal channel: armed, each rank's stop flag, notices in flight, polls counted
    bits        \* a word w of a pawn entry, the arguments of set_bits and the word before the call

bufVars == <<buffer, offered, value>>
lineVars == <<input, str, nread>>
saveVars == <<tte, args>>
vars == <<buffer, offered, value, ret, op, input, str, nread, tte, args, mi, topo, bits, mode, cand, sig>>

----------------------------------------------------------------------------
(* Bounds *)

\* template parameter N of TTSendBuffer<N>
N == 3
\* longest sequence of replace calls between two resets of the array
MaxOffers == 5
\* greatest depth of an offered entry
MaxDepth == 3

\* depths below zero that are offered: TTEntry::depth() is signed
MaxNegDepth == 1
\* longest input stream, in characters
MaxStream == 3
\* width in bits of the unsigned type T of get_bits and set_bits
WordBits == 5
\* greatest number of ranks of a cluster
MaxRanks == 3
\* polls a rank makes before a stop notice sent to it is delivered
Latency == 2

Depths == (0 - MaxNegDepth)..MaxDepth

----------------------------------------------------------------------------
(* KeyedTTEntry = std::pair<Key, TTEntry>; only Key and TTEntry::depth()   *)
(* are read by TTSendBuffer.  The key of an offered entry is its position  *)
(* in the sequence of offers, which tells the offered entries apart.       *)

KeyedTTEntry(k, d) == [key |-> k, depth |-> d]

\* std::pair's default constructor value-initialises both members: Key 0 and
\* a zeroed TTEntry, whose depth() is 0.
ValueInitEntry == KeyedTTEntry(0, 0)

\* a value-initialised TTSendBuffer<N>
ValueInitBuffer == [i \in 1..N |-> ValueInitEntry]

\* TTSendBuffer::Compare::operator()
compare_lt(lhs, rhs) == lhs.depth < rhs.depth
compare(lhs, rhs) == lhs.depth > rhs.depth

\* element of a 0-indexed array held as a TLA+ sequence
At(a, i) == a[i + 1]
Put(a, i, v) == [a EXCEPT ![i + 1] = v]

\* std::__push_heap(first, holeIndex, topIndex, value, comp)
RECURSIVE std_push_heap_loop(_, _, _, _)
std_push_heap_loop(a, holeIndex, topIndex, v) ==
    LET parent == (holeIndex - 1) \div 2
    IN  IF holeIndex > topIndex /\ compare(At(a, parent), v)
        THEN std_push_heap_loop(Put(a, holeIndex, At(a, parent)), parent, topIndex, v)
        ELSE Put(a, holeIndex, v)

\* std::push_heap(begin(), end(), compare): sift the last element up
push_heap_nosift(a) == a
push_heap(a) == std_push_heap_loop(a, Len(a) - 1, 0, At(a, Len(a) - 1))

\* the while loop of std::__adjust_heap: move the hole down to a leaf,
\* each time to the child that does not compare before its sibling
RECURSIVE std_adjust_heap_loop(_, _, _)
std_adjust_heap_loop(a, holeIndex, len) ==
    IF holeIndex < (len - 1) \div 2
    THEN LET right == 2 * (holeIndex + 1)
             child == IF compare(At(a, right), At(a, right - 1)) THEN right - 1 ELSE right
         IN  std_adjust_heap_loop(Put(a, holeIndex, At(a, child)), child, len)
    ELSE [a |-> a, holeIndex |-> holeIndex]

\* std::__adjust_heap(first, 0, len, value, comp)
std_adjust_heap(a, len, v) ==
    LET down == std_adjust_heap_loop(a, 0, len)
        h    == down.holeIndex
        last == IF len % 2 = 0 /\ h = (len - 2) \div 2
                THEN [a |-> Put(down.a, h, At(down.a, 2 * (h + 1) - 1)),
                      holeIndex |-> 2 * (h + 1) - 1]
                ELSE down
    IN  std_push_heap_loop(last.a, last.holeIndex, 0, v)

\* std::pop_heap(begin(), end(), compare): the front goes to the back, the
\* rest is made a heap again
pop_heap_keep(a) == a
pop_heap(a) ==
    IF Len(a) > 1
    THEN LET last == Len(a) - 1
         IN  std_adjust_heap(Put(a, last, At(a, 0)), last, At(a, last))
    ELSE a

\* TTSendBuffer::replace: the array after the call and the returned value
replace_ge(a, v) ==
    IF ~compare(At(a, 0), v)
    THEN [buf |-> push_heap(Put(pop_heap(a), Len(a) - 1, v)), ret |-> TRUE]
    ELSE [buf |-> a, ret |-> FALSE]
replace(a, v) ==
    IF compare(v, At(a, 0))
    THEN [buf |-> push_heap(Put(pop_heap(a), Len(a) - 1, v)), ret |-> TRUE]
    ELSE [buf |-> a, ret |-> FALSE]

----------------------------------------------------------------------------
(* The bit-field helpers of pawns.h on an unsigned type T of WordBits bits *)

RECURSIVE Pow2(_)
Pow2(n) == IF n = 0 THEN 1 ELSE 2 * Pow2(n - 1)

Words == 0..(Pow2(WordBits) - 1)

\* x << n and x >> n in T
shl(x, n) == (x * Pow2(n)) % Pow2(WordBits)
shr(x, n) == x \div Pow2(n)

\* x & y and x ^ y, bit by bit
RECURSIVE and(_, _)
and(x, y) ==
    IF x = 0 \/ y = 0 THEN 0
    ELSE 2 * and(x \div 2, y \div 2) + (IF x % 2 = 1 /\ y % 2 = 1 THEN 1 ELSE 0)
RECURSIVE xor(_, _)
xor(x, y) ==
    IF x = 0 THEN y
    ELSE IF y = 0 THEN x
    ELSE 2 * xor(x \div 2, y \div 2) + (IF x % 2 # y % 2 THEN 1 ELSE 0)

\* (T(1) << len) - 1
mask(len) == (shl(1, len) + Pow2(WordBits) - 1) % Pow2(WordBits)

\* Pawns::get_bits(w, pos, len)
get_bits(w, pos, len) == and(shr(w, pos), mask(len))

\* Pawns::set_bits(w, pos, len, val): the word w after the call
set_bits_nomask(w, pos, len, val) ==
    xor(w, and(xor(shl(val, pos), w), shl(Pow2(WordBits) - 1, pos)))
set_bits(w, pos, len, val) ==
    xor(w, and(xor(shl(val, pos), w), shl(mask(len), pos)))

NoBits == [w |-> 0, pos |-> 0, len |-> 1, val |-> 0, old |-> 0]

----------------------------------------------------------------------------
(* The single-process stubs (USE_MPI not defined) *)

\* struct MoveInfo
MoveInfo(move, depth, score, r) == [move |-> move, depth |-> depth, score |-> score, rank |-> r]

\* constexpr int size()
size_two == 1 + 1
size == 1

\* constexpr int rank()
rank == 0

\* constexpr bool is_root()
is_root == TRUE

NoTopo == [size |-> -1, rank |-> -1, is_root |-> FALSE]
NoCand == <<MoveInfo(0, 0, 0, 0)>>

\* a std::istream over `content`: the read position and the iostate bits
Stream(content) == [content |-> content, pos |-> 0, eofbit |-> FALSE, failbit |-> FALSE, badbit |-> FALSE]

good(is) == ~is.eofbit /\ ~is.failbit /\ ~is.badbit

\* the extraction loop of std::getline(is, str): characters are appended to
\* str up to the next '\n', which is extracted and dropped; the end of the
\* content sets eofbit
RECURSIVE extract(_, _, _, _)
extract(content, pos, acc, n) ==
    IF pos >= Len(content)
    THEN [str |-> acc, pos |-> pos, eof |-> TRUE, n |-> n]
    ELSE IF content[pos + 1] = "\n"
         THEN [str |-> acc, pos |-> pos + 1, eof |-> FALSE, n |-> n + 1]
         ELSE extract(content, pos + 1, Append(acc, content[pos + 1]), n + 1)

\* std::getline(is, str): the stream and the string after the call.  The
\* sentry fails on a stream that is not good(): failbit, str untouched.  A
\* failing read of the underlying device (fault) sets badbit.  No character
\* extracted sets failbit.
std_getline(is, s, fault) ==
    IF ~good(is)
    THEN [is |-> [is EXCEPT !.failbit = TRUE], str |-> s]
    ELSE IF fault
         THEN [is |-> [is EXCEPT !.badbit = TRUE, !.failbit = TRUE], str |-> <<>>]
         ELSE LET x == extract(is.content, is.pos, <<>>, 0)
              IN  [is |-> [is EXCEPT !.pos = x.pos,
                                     !.eofbit = x.eof,
                                     !.failbit = (x.n = 0)],
                   str |-> x.str]

\* Cluster::getline: static_cast<bool>(std::getline(input, str)), i.e. !fail()
getline_good(is, s, fault) ==
    LET r == std_getline(is, s, fault)
    IN  [is |-> r.is, str |-> r.str, ret |-> good(r.is)]
getline(is, s, fault) ==
    LET r == std_getline(is, s, fault)
    IN  [is |-> r.is, str |-> r.str, ret |-> ~(r.is.failbit \/ r.is.badbit)]

\* the fields of a TTEntry that save is given
TTEntry(k, v, b, d, m, ev) == [key |-> k, value |-> v, bound |-> b, depth |-> d, move |-> m, eval |-> ev]
ZeroTTEntry == TTEntry(0, 0, 0, 0, 0, 0)
NoArgs == [k |-> 0, v |-> 0, b |-> 0, d |-> 0, m |-> 0, ev |-> 0]

\* TTEntry::save(k, v, b, d, m, ev): the local write into the slot
TTEntry_save(e, k, v, b, d, m, ev) == TTEntry(k, v, b, d, m, ev)

\* Cluster::save(Thread*, tte, k, v, b, d, m, ev): the slot and the thread's
\* send buffer after the call
save_and_offer(thread, e, k, v, b, d, m, ev) ==
    [tte |-> TTEntry_save(e, k, v, b, d, m, ev), buffer |-> replace(thread, KeyedTTEntry(k, d)).buf]
save(thread, e, k, v, b, d, m, ev) ==
    [tte |-> TTEntry_save(e, k, v, b, d, m, ev), buffer |-> thread]

\* Cluster::pick_moves(MoveInfo&): the MoveInfo after the call
pick_moves(m) == m

\* Cluster::signals_init(), signals_poll() and signals_sync(): the caller's
\* view of the stop signal after the call.  The bodies are empty and the
\* return type is void.
signals_init(s) == s
signals_poll_clear(s) == [s EXCEPT !.stop = [r \in DOMAIN s.stop |-> FALSE]]
signals_poll(s) == s
signals_sync(s) == s

\* what a call of the void signals_poll() hands back to its caller
signals_poll_result == "void"

----------------------------------------------------------------------------
(* The distributed build (USE_MPI): pick_moves and the signal channel as    *)
(* the specification describes them; cluster.h only declares them          *)

Ranks(n) == 0..(n - 1)

\* the candidate a is selected over b: deeper, or as deep with a greater
\* score, or tied on both with a lower rank
better_norank(a, b) ==
    \/ a.depth > b.depth
    \/ a.depth = b.depth /\ a.score > b.score
better(a, b) ==
    \/ a.depth > b.depth
    \/ a.depth = b.depth /\ a.score > b.score
    \/ a.depth = b.depth /\ a.score = b.score /\ a.rank < b.rank

\* pick_moves on root: the candidates are gone through in the order they
\* arrived, keeping the better one
RECURSIVE pick_moves_mpi(_, _)
pick_moves_mpi(best, arrived) ==
    IF arrived = <<>> THEN best
    ELSE pick_moves_mpi(IF better(Head(arrived), best) THEN Head(arrived) ELSE best,
                        Tail(arrived))

\* the channel of n ranks before signals_init
Channel(n) ==
    [armed |-> FALSE,
     stop  |-> [r \in Ranks(n) |-> FALSE],
     delay |-> [r \in Ranks(n) |-> -1],
     polls |-> [r \in Ranks(n) |-> 0],
     last  |-> 0,
     ret   |-> "none"]
NoSig == Channel(1)

\* signals_init(): every rank arms the channel for a new episode
signals_init_mpi(s) ==
    [s EXCEPT !.armed = TRUE,
              !.delay = [r \in DOMAIN s.delay |-> -1]]

\* rank r requests a stop: its own flag is set, a notice goes to every rank
\* that has neither stopped nor a notice under way
request_stop_mpi(s, r) ==
    [s EXCEPT !.stop[r] = TRUE,
              !.delay = [q \in DOMAIN s.delay |->
                            IF q # r /\ ~s.stop[q] /\ s.delay[q] = -1 THEN Latency ELSE s.delay[q]]]

\* signals_poll() on rank r: a notice under way comes one poll closer; when it
\* arrives the stop flag of r is set.  The call does not wait.
signals_poll_mpi(s, r) ==
    IF s.delay[r] > 1 THEN [s EXCEPT !.delay[r] = s.delay[r] - 1]
    ELSE IF s.delay[r] >= 0 THEN [s EXCEPT !.delay[r] = -1, !.stop[r] = TRUE]
    ELSE s

\* signals_sync(): returns on every rank once all have stopped; the channel
\* is back to its state before signals_init
signals_sync_mpi(s) == [s EXCEPT !.armed = FALSE]

\* argument values of save
Keys == {7}
Values == {-1, 1}
Bounds == {1, 2, 3}
SaveDepths == {0, 2}
Moves == {0, 5}

\* input characters
Chars == {"a", "b", "\n"}
RECURSIVE SeqsUpTo(_)
SeqsUpTo(n) ==
    IF n = 0 THEN {<<>>}
    ELSE LET shorter == SeqsUpTo(n - 1)
         IN  shorter \cup {Append(q, c) : q \in {t \in shorter : Len(t) = n - 1}, c \in Chars}

InitStubs(contents) ==
    /\ buffer = ValueInitBuffer
    /\ offered = <<>>
    /\ value = ValueInitEntry
    /\ ret = FALSE
    /\ op = "start"
    /\ \E c \in contents : input = Stream(c)
    /\ str = <<>>
    /\ nread = 0
    /\ tte = ZeroTTEntry
    /\ args = NoArgs
    /\ \E d \in {1, 2} : mi = MoveInfo(7, d, 10, rank)
    /\ topo = NoTopo
    /\ bits = NoBits
    /\ mode = "single"
    /\ cand = NoCand
    /\ sig = NoSig

\* Cluster::init() and Cluster::finalize(): empty bodies
NoOp(name) ==
    /\ op' = name
    /\ UNCHANGED <<bufVars, ret, lineVars, saveVars, mi, topo, bits, mode, cand, sig>>

Init_ == NoOp("init")
Finalize == NoOp("finalize")

\* Cluster::signals_init(), signals_poll(), signals_sync(): empty bodies
SignalsStub(name, after) ==
    /\ sig' = after
    /\ op' = name
    /\ UNCHANGED <<bufVars, ret, lineVars, saveVars, mi, topo, bits, mode, cand>>

SignalsInit == SignalsStub("signals_init", signals_init(sig))
SignalsPoll == SignalsStub("signals_poll", signals_poll(sig))
SignalsSync == SignalsStub("signals_sync", signals_sync(sig))

\* size(), rank() and is_root() are called
Topology ==
    /\ topo' = [size |-> size, rank |-> rank, is_root |-> is_root]
    /\ op' = "topology"
    /\ UNCHANGED <<bufVars, ret, lineVars, saveVars, mi, bits, mode, cand, sig>>

\* Cluster::getline(input, str)
GetLine ==
    /\ \E fault \in BOOLEAN :
          LET r == getline(input, str, fault)
          IN  /\ input' = r.is
              /\ str' = r.str
              /\ ret' = r.ret
              /\ nread' = IF r.ret THEN nread + 1 ELSE nread
    /\ op' = "getline"
    /\ UNCHANGED <<bufVars, saveVars, mi, topo, bits, mode, cand, sig>>

\* Cluster::save(thread, tte, k, v, b, d, m, ev)
Save ==
    /\ \E k \in Keys, v \in Values, b \in Bounds, d \in SaveDepths, m \in Moves, ev \in Values :
          LET r == save(buffer, tte, k, v, b, d, m, ev)
          IN  /\ tte' = r.tte
              /\ buffer' = r.buffer
              /\ args' = [k |-> k, v |-> v, b |-> b, d |-> d, m |-> m, ev |-> ev]
    /\ op' = "save"
    /\ UNCHANGED <<offered, value, ret, lineVars, mi, topo, bits, mode, cand, sig>>

\* Cluster::pick_moves(mi)
PickMoves ==
    /\ mi' = pick_moves(mi)
    /\ op' = "pick_moves"
    /\ UNCHANGED <<bufVars, ret, lineVars, saveVars, topo, bits, mode, cand, sig>>

InitSingle == InitStubs(SeqsUpTo(1))

NextSingle ==
    \/ Init_ \/ Finalize \/ SignalsInit \/ SignalsPoll \/ SignalsSync
    \/ Topology \/ GetLine \/ Save \/ PickMoves

SpecSingle == InitSingle /\ [][NextSingle]_vars

InitGetline == InitStubs(SeqsUpTo(MaxStream))

NextGetline == GetLine

SpecGetline == InitGetline /\ [][NextGetline]_vars

----------------------------------------------------------------------------
(* SpecBuf: a thread's send buffer under a sequence of replace calls *)

InitBuf ==
    /\ buffer = ValueInitBuffer
    /\ offered = <<>>
    /\ value = ValueInitEntry
    /\ ret = FALSE
    /\ op = "start"
    /\ input = Stream(<<>>)
    /\ str = <<>>
    /\ nread = 0
    /\ tte = ZeroTTEntry
    /\ args = NoArgs
    /\ mi = MoveInfo(0, 0, 0, 0)
    /\ topo = NoTopo
    /\ bits = NoBits
    /\ mode = "single"
    /\ cand = NoCand
    /\ sig = NoSig

\* buffer.replace(value) with a value of any depth
Replace ==
    /\ Len(offered) < MaxOffers
    /\ \E d \in Depths :
          LET v == KeyedTTEntry(Len(offered) + 1, d)
              r == replace(buffer, v)
          IN  /\ buffer' = r.buf
              /\ ret' = r.ret
              /\ value' = v
              /\ offered' = Append(offered, v)
    /\ op' = "replace"
    /\ UNCHANGED <<lineVars, saveVars, mi, topo, bits, mode, cand, sig>>

\* the buffer is emptied for the next exchange: buffer = {}
Drain ==
    /\ offered # <<>>
    /\ buffer' = ValueInitBuffer
    /\ offered' = <<>>
    /\ op' = "drain"
    /\ UNCHANGED <<value, ret, lineVars, saveVars, mi, topo, bits, mode, cand, sig>>

NextBuf == Replace \/ Drain

SpecBuf == InitBuf /\ [][NextBuf]_vars

----------------------------------------------------------------------------
(* SpecPick: one episode's candidates and pick_moves on root *)

PickMovesOf == {11, 12}
PickDepths == {19, 20}
PickScores == {34, 35}

RECURSIVE Orders(_)
Orders(S) ==
    IF S = {} THEN {<<>>}
    ELSE UNION {{<<x>> \o q : q \in Orders(S \ {x})} : x \in S}

InitPick ==
    /\ buffer = ValueInitBuffer
    /\ offered = <<>>
    /\ value = ValueInitEntry
    /\ ret = FALSE
    /\ op = "start"
    /\ input = Stream(<<>>)
    /\ str = <<>>
    /\ nread = 0
    /\ tte = ZeroTTEntry
    /\ args = NoArgs
    /\ topo = NoTopo
    /\ bits = NoBits
    /\ sig = NoSig
    /\ mode \in {"single", "mpi"}
    /\ \E n \in 1..MaxRanks :
          /\ (mode = "single") = (n = size)
          /\ \E f \in [Ranks(n) -> PickMovesOf \X PickDepths \X PickScores] :
                cand = [r \in Ranks(n) |-> MoveInfo(f[r][1], f[r][2], f[r][3], r)]
    /\ mi = cand[0]

\* pick_moves(mi) of the single-process build
PickMovesSingle ==
    /\ mode = "single"
    /\ mi' = pick_moves(mi)
    /\ op' = "pick_moves"
    /\ UNCHANGED <<bufVars, ret, lineVars, saveVars, topo, bits, mode, cand, sig>>

\* pick_moves(mi) on root of the distributed build, the candidates of the
\* other ranks arriving in any order
PickMovesMpi ==
    /\ mode = "mpi"
    /\ \E order \in Orders(DOMAIN cand \ {0}) :
          mi' = pick_moves_mpi(cand[0], [i \in 1..Len(order) |-> cand[order[i]]])
    /\ op' = "pick_moves"
    /\ UNCHANGED <<bufVars, ret, lineVars, saveVars, topo, bits, mode, cand, sig>>

NextPick == PickMovesSingle \/ PickMovesMpi

SpecPick == InitPick /\ [][NextPick]_vars

----------------------------------------------------------------------------
(* SpecSignal: episodes of search on every rank, stop requests and polls *)

InitSignal ==
    /\ buffer = ValueInitBuffer
    /\ offered = <<>>
    /\ value = ValueInitEntry
    /\ ret = FALSE
    /\ op = "start"
    /\ input = Stream(<<>>)
    /\ str = <<>>
    /\ nread = 0
    /\ tte = ZeroTTEntry
    /\ args = NoArgs
    /\ mi = MoveInfo(0, 0, 0, 0)
    /\ topo = NoTopo
    /\ bits = NoBits
    /\ cand = NoCand
    /\ mode \in {"single", "mpi"}
    /\ \E n \in 1..MaxRanks :
          /\ (mode = "single") = (n = size)
          /\ sig = Channel(n)

Bump(c) == IF c > Latency THEN c ELSE c + 1
StopRequested(s) == \E q \in DOMAIN s.stop : s.stop[q]

\* a search episode starts: the stop flags are cleared and signals_init() is called
SignalsInitEpisode ==
    /\ ~sig.armed
    /\ LET cleared == [sig EXCEPT !.stop = [r \in DOMAIN sig.stop |-> FALSE],
                                  !.polls = [r \in DOMAIN sig.polls |-> 0],
                                  !.ret = "none"]
       IN  sig' = IF mode = "single"
                  THEN [signals_init(cleared) EXCEPT !.armed = TRUE]
                  ELSE signals_init_mpi(cleared)
    /\ op' = "signals_init"
    /\ UNCHANGED <<bufVars, ret, lineVars, saveVars, mi, topo, bits, mode, cand>>

\* the search of rank r ends by its own limits and requests a stop
RequestStop(r) ==
    /\ sig.armed
    /\ ~sig.stop[r]
    /\ sig' = IF mode = "single"
              THEN [sig EXCEPT !.stop[r] = TRUE]
              ELSE request_stop_mpi(sig, r)
    /\ op' = "request_stop"
    /\ UNCHANGED <<bufVars, ret, lineVars, saveVars, mi, topo, bits, mode, cand>>

\* rank r calls signals_poll(); polls made while a stop is requested are counted
Poll(r) ==
    /\ LET polled == IF mode = "single" THEN signals_poll(sig) ELSE signals_poll_mpi(sig, r)
       IN  sig' = [polled EXCEPT !.polls[r] = IF StopRequested(sig) THEN Bump(@) ELSE @,
                                 !.last = r,
                                 !.ret = signals_poll_result]
    /\ op' = "signals_poll"
    /\ UNCHANGED <<bufVars, ret, lineVars, saveVars, mi, topo, bits, mode, cand>>

\* every rank has stopped and calls signals_sync()
SignalsSyncAll ==
    /\ sig.armed
    /\ \A r \in DOMAIN sig.stop : sig.stop[r]
    /\ sig' = IF mode = "single"
              THEN [signals_sync(sig) EXCEPT !.armed = FALSE]
              ELSE signals_sync_mpi(sig)
    /\ op' = "signals_sync"
    /\ UNCHANGED <<bufVars, ret, lineVars, saveVars, mi, topo, bits, mode, cand>>

NextSignal ==
    \/ SignalsInitEpisode
    \/ \E r \in DOMAIN sig.stop : RequestStop(r)
    \/ \E r \in DOMAIN sig.stop : Poll(r)
    \/ SignalsSyncAll

SpecSignal == InitSignal /\ [][NextSignal]_vars

----------------------------------------------------------------------------
(* SpecBits: one set_bits call on any word, field and value *)

\* a field of len bits at pos inside the word; T(1) << len needs len < WordBits
Fields == {f \in (0..(WordBits - 1)) \X (1..(WordBits - 1)) : f[1] + f[2] <= WordBits}

InitBits ==
    /\ buffer = ValueInitBuffer
    /\ offered = <<>>
    /\ value = ValueInitEntry
    /\ ret = FALSE
    /\ op = "start"
    /\ input = Stream(<<>>)
    /\ str = <<>>
    /\ nread = 0
    /\ tte = ZeroTTEntry
    /\ args = NoArgs
    /\ mi = MoveInfo(0, 0, 0, 0)
    /\ topo = NoTopo
    /\ mode = "single"
    /\ cand = NoCand
    /\ sig = NoSig
    /\ \E w \in Words, f \in Fields, val \in Words :
          bits = [w |-> w, pos |-> f[1], len |-> f[2], val |-> val, old |-> w]

\* set_bits(w, pos, len, val)
SetBits ==
    /\ op = "start"
    /\ bits' = [bits EXCEPT !.w = set_bits(bits.w, bits.pos, bits.len, bits.val)]
    /\ op' = "set_bits"
    /\ UNCHANGED <<bufVars, ret, lineVars, saveVars, mi, topo, mode, cand, sig>>

NextBits == SetBits

SpecBits == InitBits /\ [][NextBits]_vars

----------------------------------------------------------------------------
(* Properties of the send buffer *)

Slots == 1..N
Count(a, e) == Cardinality({i \in Slots : a[i] = e})
MinOf(a) == CHOOSE d \in {a[i].depth : i \in Slots} : \A i \in Slots : d <= a[i].depth
Smaller(x, y) == IF x < y THEN x ELSE y
\* positions in `offered` of the offered entries the buffer holds
Held == {j \in 1..Len(offered) : \E i \in Slots : buffer[i] = offered[j]}
NotHeld == (1..Len(offered)) \ Held

C2_StrictlyDeeperEvictsMin ==
    [][op' = "replace" =>
        LET m == MinOf(buffer)
        IN  /\ ret' = (value'.depth > m)
            /\ ret' => \E i \in Slots :
                          /\ buffer[i].depth = m
                          /\ \A e \in {buffer[k] : k \in Slots} \cup {value'} :
                                Count(buffer', e) = Count(buffer, e)
                                                    - (IF e = buffer[i] THEN 1 ELSE 0)
                                                    + (IF e = value' THEN 1 ELSE 0)
            /\ ~ret' => buffer' = buffer]_vars

\* a buffer holding only offered entries accepted one more
C2_Witness ==
    /\ op = "replace" /\ ret
    /\ Len(offered) > N
    /\ \A i \in Slots : buffer[i] # ValueInitEntry

IsHeap(a) == \A i \in 1..(N - 1) : ~compare(At(a, (i - 1) \div 2), At(a, i))

C9_HeapAfterReplace ==
    /\ IsHeap(buffer)
    /\ At(buffer, 0).depth = MinOf(buffer)

\* an accepted offer left entries of at least two depths, none a placeholder
C9_Witness ==
    /\ op = "replace" /\ ret
    /\ \A i \in Slots : buffer[i] # ValueInitEntry
    /\ \E i \in Slots : buffer[i].depth > At(buffer, 0).depth

----------------------------------------------------------------------------
(* Properties of the single-process stubs *)

\* C4: in single-process mode size() is 1, rank() is 0 and is_root() is true in
\* every state, whatever calls were made before, and every call of the three
\* queries returned these values.
C4_SingleProcessTopology ==
    /\ size = 1 /\ rank = 0 /\ is_root = TRUE
    /\ topo # NoTopo => topo = [size |-> 1, rank |-> 0, is_root |-> TRUE]

\* the queries were called after save and getline had run
C4_Witness ==
    /\ op = "topology"
    /\ topo # NoTopo
    /\ tte # ZeroTTEntry
    /\ nread > 0

\* C5: in single-process mode a save call leaves the slot as the direct write
\* tte->save(k, v, b, d, m, ev) leaves it and changes nothing else: not the
\* send buffer, not the stream, not the MoveInfo.
C5_SaveIsLocalWrite ==
    [][op' = "save" =>
        /\ tte' = TTEntry_save(tte, args'.k, args'.v, args'.b, args'.d, args'.m, args'.ev)
        /\ UNCHANGED <<buffer, offered, value, ret, input, str, nread, mi, topo, bits, mode, cand, sig>>]_vars

\* a save of a positive depth over an earlier save, value and eval differing
C5_Witness ==
    /\ op = "save"
    /\ tte.value # tte.eval
    /\ tte.depth > 0
    /\ tte.move = 0

\* the lines of a stream: the runs of characters ended by '\n', and the run
\* after the last '\n' when it is not empty
RECURSIVE LinesFrom(_, _, _)
LinesFrom(content, i, cur) ==
    IF i > Len(content)
    THEN IF cur = <<>> THEN <<>> ELSE <<cur>>
    ELSE IF content[i] = "\n"
         THEN <<cur>> \o LinesFrom(content, i + 1, <<>>)
         ELSE LinesFrom(content, i + 1, Append(cur, content[i]))
Lines(content) == LinesFrom(content, 1, <<>>)

\* C8: a getline call returns true with str holding the next line of the
\* stream, in stream order, while a line is left and no read failed; it
\* returns false once the lines are used up or a read has failed.
C8_GetlineReturnsLinesInOrder ==
    op = "getline" =>
        IF ret
        THEN /\ ~input.badbit
             /\ nread <= Len(Lines(input.content))
             /\ str = Lines(input.content)[nread]
        ELSE input.badbit \/ nread = Len(Lines(input.content))

\* two lines were returned, the second one without a final '\n', and the next
\* call returned false at the end of the stream
C8_Witness ==
    /\ op = "getline" /\ ~ret /\ ~input.badbit
    /\ nread = 2
    /\ input.content[Len(input.content)] # "\n"

----------------------------------------------------------------------------
(* Properties of the bit-field helpers *)

\* bit i of x
Bit(x, i) == (x \div Pow2(i)) % 2

\* C10: for pos + len < WordBits, after set_bits(w, pos, len, val) the call
\* get_bits(w, pos, len) returns val modulo 2^len, every bit of w outside
\* [pos, pos + len) is as before, and so is every field that does not overlap
\* the written one.
C10_SetThenGetAndFrame ==
    (op = "set_bits" /\ bits.pos + bits.len < WordBits) =>
        /\ get_bits(bits.w, bits.pos, bits.len) = bits.val % Pow2(bits.len)
        /\ \A i \in 0..(WordBits - 1) :
              (i < bits.pos \/ i >= bits.pos + bits.len) => Bit(bits.w, i) = Bit(bits.old, i)
        /\ \A f \in Fields :
              (f[1] + f[2] <= bits.pos \/ bits.pos + bits.len <= f[1]) =>
                  get_bits(bits.w, f[1], f[2]) = get_bits(bits.old, f[1], f[2])

\* a value too wide for its field was written between two fields holding ones
C10_Witness ==
    /\ op = "set_bits"
    /\ bits.pos > 0 /\ bits.pos + bits.len < WordBits
    /\ bits.val >= Pow2(bits.len)
    /\ bits.w # bits.old
    /\ Bit(bits.old, bits.pos - 1) = 1
    /\ Bit(bits.old, bits.pos + bits.len) = 1

----------------------------------------------------------------------------
(* Properties of pick_moves and of the stop signal *)

Cands == {cand[r] : r \in DOMAIN cand}
Deepest == {c \in Cands : \A o \in Cands : c.depth >= o.depth}
BestScored == {c \in Deepest : \A o \in Deepest : c.score >= o.score}
LowestRanked == {c \in BestScored : \A o \in BestScored : c.rank <= o.rank}

\* C6: after pick_moves the MoveInfo of root is the candidate of greatest
\* depth, among these of greatest score, among these of lowest rank, whatever
\* the order the candidates arrived in; with a single rank it is that rank's
\* own candidate, unchanged.
C6_PickMovesSelection ==
    op = "pick_moves" =>
        /\ LowestRanked = {mi}
        /\ mode = "single" => mi = cand[0]

\* root was not selected: two other ranks tied on depth and score
C6_Witness ==
    /\ op = "pick_moves"
    /\ mode = "mpi"
    /\ mi.rank = 1
    /\ Cardinality(BestScored) = 2
    /\ mi.move # cand[0].move

====
